---- MODULE Spec2Model ----
(***************************************************************************)
(* Model of the rfm12 packet driver (src/rfm12lib/rfm12.cpp): the          *)
(* interrupt handler ISR(RFM12_INT_VECT), the collision-avoidance          *)
(* scheduler rfm12_tick, the enqueue API rfm12_tx / rfm12_start_tx and     *)
(* rfm12_rx_clear.                                                         *)
(*                                                                         *)
(* Concurrency: one mainline thread (program counter pc) that is at        *)
(* "main" between library calls, and one interrupt handler that may run    *)
(* between any two mainline steps.  One handler step is one iteration of   *)
(* the handler's do/while loop in which the FFIT bit was set; the handler  *)
(* runs with its interrupt source masked, so an iteration is atomic with   *)
(* respect to the mainline.  The mainline steps are cut at every access to *)
(* state the handler shares; a stretch the code runs between               *)
(* RFM12_INT_OFF() and RFM12_INT_ON() is one step.                         *)
(***************************************************************************)
EXTENDS Integers, Sequences, FiniteSets, TLC

\* ------------------------------------------------------------------ bounds
\* Handler executions the model lets pile up before it stops counting.
IsrDepthCap == 2
\* Payload capacity of the transmit buffer and of each receive slot
\* (RFM12_TX_BUFFER_SIZE, RFM12_RX_BUFFER_SIZE of the build configuration).
BufferSize == 2
\* Ticks the channel must stay clear after a carrier (CHANNEL_FREE_TIME of the
\* build configuration), as its excess over the start-up value of
\* channel_free_count; the library's configurations keep it well above.
FreeTimeExtra == 2

\* --------------------------------------------------------------- constants
RFM12_TX_BUFFER_SIZE == BufferSize
RFM12_RX_BUFFER_SIZE == BufferSize
ChannelFreeStart == 16
CHANNEL_FREE_TIME == ChannelFreeStart + FreeTimeExtra
PACKET_OVERHEAD == 3
TxFraming == 6
SYNC_MSB == 45
SYNC_LSB == 212
PREAMBLE == 170
TxDummy == 170
ChecksumOk == 255
ByteMod == 256
CounterMod == 256

STATE_RX_IDLE == "STATE_RX_IDLE"
STATE_RX_ACTIVE == "STATE_RX_ACTIVE"
STATE_TX == "STATE_TX"
STATUS_FREE == "STATUS_FREE"
STATUS_OCCUPIED == "STATUS_OCCUPIED"
STATUS_COMPLETE == "STATUS_COMPLETE"
RFM12_TX_ENQUEUED == "RFM12_TX_ENQUEUED"
RFM12_TX_OCCUPIED == "RFM12_TX_OCCUPIED"
RFM12_TX_ERROR == "RFM12_TX_ERROR"
NoReturn == "none"

\* Bus commands the model tells apart.
CmdRead == "RFM12_CMD_READ"
CmdStatus == "RFM12_CMD_STATUS"
CmdTx == "RFM12_CMD_TX"
CmdFifoClear == "FIFORESET_CLEAR_FIFO"
CmdFifoAccept == "FIFORESET_ACCEPT_DATA"
CmdPwrReceive == "PWRMGT_RECEIVE"
CmdPwrTransmit == "PWRMGT_ET"

\* ------------------------------------------------------------ arithmetic
\* A value stored into a uint8_t.
U8(x) == x % ByteMod
\* A value stored into ctrl.num_bytes or ctrl.bytecount.
Ctr(x) == x % CounterMod

RECURSIVE XorBits(_, _, _)
XorBits(a, b, n) ==
    IF n = 0 THEN 0
    ELSE (((a % 2) + (b % 2)) % 2) + (2 * XorBits(a \div 2, b \div 2, n - 1))

\* The C operator ^ on two uint8_t values.
Xor(a, b) == XorBits(a, b, 8)

Other(i) == 1 - i

\* ------------------------------------------------------------------ state
VARIABLES
    rfm12_state,        \* ctrl.rfm12_state
    txstate,            \* ctrl.txstate
    num_bytes,          \* ctrl.num_bytes
    bytecount,          \* ctrl.bytecount
    buffer_in_num,      \* ctrl.buffer_in_num
    buffer_out_num,     \* ctrl.buffer_out_num
    rf_tx_buffer,       \* the transmit buffer: len, type, checksum, buffer
    rf_rx_buffers,      \* the two receive slots: status, len, type, checksum, buffer
    checksum,           \* the handler's static checksum accumulator
    channel_free_count, \* rfm12_tick's static countdown
    pc,                 \* where the mainline is
    arg,                \* the arguments of the rfm12_tx call in progress or returning in the last step
    ret,                \* what the last step returned to the caller of rfm12_tx
    bus,                \* the bus commands the last step issued, in order
    wire,               \* the bytes written to the transmit register since the last enqueue
    enq,                \* the arguments of the last successful enqueue
    rxpkt,              \* the bytes the handler read since the length byte of the reception in progress
    got,                \* per slot, the bytes of the reception that marked it Complete
    carrier_seen,       \* some tick sensed a carrier
    clear_seen,         \* some tick sensed the channel without a carrier
    clear_run,          \* carrier-free sensing ticks since the last tick that sensed a carrier
    isr_since_check,    \* the handler ran since the idle check of the tick in progress
    feed,               \* loop-back: transmitted bytes still to be delivered to the receiver
    loop,               \* loop-back: the slot being fed and the packet it is fed with
    rx_off,             \* offset from the slot's len field of the handler's last store, -1 if its last run stored nothing
    rx_order,           \* the slots whose status is STATUS_COMPLETE, oldest first
    int_on,             \* the interrupt source is enabled (RFM12_INT_ON / RFM12_INT_OFF)
    isr_depth,          \* handler executions in progress
    rssi                \* rfm12_tick's local status: the carrier bit it read

ctrlvars == <<rfm12_state, txstate, num_bytes, bytecount, buffer_in_num, buffer_out_num>>
bufvars == <<rf_tx_buffer, rf_rx_buffers>>
tickvars == <<channel_free_count, carrier_seen, clear_seen, clear_run>>
loopvars == <<feed, loop>>
maskvars == <<int_on, isr_depth, rssi>>
vars == <<rfm12_state, txstate, num_bytes, bytecount, buffer_in_num, buffer_out_num,
          rf_tx_buffer, rf_rx_buffers, checksum, channel_free_count, pc, arg, ret,
          bus, wire, enq, rxpkt, got, carrier_seen, clear_seen, clear_run,
          isr_since_check,
          feed, loop, rx_off, rx_order, int_on, isr_depth, rssi>>

\* ----------------------------------------------------------------- inputs
\* What a read past the end of rf_tx_buffer can return.
Undefined == {0, 255}

\* The inputs of one specification: the lengths, types and payload bytes the
\* application enqueues, the length, type and payload bytes the receiver's
\* FIFO delivers, how many wrong checksums it delivers besides the right one,
\* and the carrier readings of the status register.
ControlInputs ==
    [txlens |-> {0, RFM12_TX_BUFFER_SIZE, RFM12_TX_BUFFER_SIZE + 1}, txtypes |-> {1},
     txdata |-> {16},
     rxlens |-> {0}, rxtypes |-> {1}, rxdata |-> {51}, rxbad |-> {1},
     carrier |-> BOOLEAN]

\* Every length up to one past the capacity, two types and two payloads
\* enqueued.
TransmitInputs ==
    [txlens |-> 0 .. (RFM12_TX_BUFFER_SIZE + 1), txtypes |-> {1, 160}, txdata |-> {16, 32},
     rxlens |-> {0}, rxtypes |-> {1}, rxdata |-> {51}, rxbad |-> {1},
     carrier |-> BOOLEAN]

\* Every packet that fits the transmit buffer, on a channel without a carrier.
LoopInputs ==
    [txlens |-> 0 .. RFM12_TX_BUFFER_SIZE, txtypes |-> {160}, txdata |-> {16, 32},
     rxlens |-> {0}, rxtypes |-> {1}, rxdata |-> {51}, rxbad |-> {1},
     carrier |-> {FALSE}]

\* Length bytes within the capacity, beyond it and at the top of a byte, each
\* with a checksum that fits and one that does not.
ReceiveInputs ==
    [txlens |-> {0}, txtypes |-> {1}, txdata |-> {16},
     rxlens |-> {0, RFM12_RX_BUFFER_SIZE, RFM12_RX_BUFFER_SIZE + 1, 253, 254, 255},
     rxtypes |-> {1}, rxdata |-> {51}, rxbad |-> {1},
     carrier |-> BOOLEAN]

\* An empty and a full packet enqueued, complete packets without payload
\* received.
LiveInputs ==
    [txlens |-> {0, RFM12_TX_BUFFER_SIZE}, txtypes |-> {160}, txdata |-> {16},
     rxlens |-> {0}, rxtypes |-> {1}, rxdata |-> {51}, rxbad |-> {},
     carrier |-> BOOLEAN]

NoPacket == [len |-> -1, type |-> 0, data |-> <<>>]

\* The payloads handed to rfm12_tx: len bytes counting up from a base, so that
\* no two bytes of a payload are equal.
Payloads(in, len) == {[i \in 1 .. len |-> base + i] : base \in in.txdata}
Zeros(n) == [i \in 1 .. n |-> 0]

\* ------------------------------------------------------------- the buffers
\* rf_tx_buffer.sync[i]: the handler indexes the whole structure from its
\* first member (sync[2], len, type, checksum, buffer[]).
TxInBounds(i) == i < 5 + RFM12_TX_BUFFER_SIZE

\* Faulty variant: the type byte stored ahead of the length byte.
TxStructByteTypeFirst(i) ==
    CASE i = 0 -> SYNC_MSB
      [] i = 1 -> SYNC_LSB
      [] i = 2 -> rf_tx_buffer.type
      [] i = 3 -> rf_tx_buffer.len
      [] i = 4 -> rf_tx_buffer.checksum
      [] OTHER -> rf_tx_buffer.buffer[i - 4]

TxStructByte(i) ==
    CASE i = 0 -> SYNC_MSB
      [] i = 1 -> SYNC_LSB
      [] i = 2 -> rf_tx_buffer.len
      [] i = 3 -> rf_tx_buffer.type
      [] i = 4 -> rf_tx_buffer.checksum
      [] OTHER -> rf_tx_buffer.buffer[i - 4]

\* The values a fetch of rf_tx_buffer.sync[i] can produce.
TxFetch(i) == IF TxInBounds(i) THEN {TxStructByte(i)} ELSE Undefined

\* (&slot.len)[off] = data
RxStoreShifted(slot, off, data) ==
    CASE off = 0 -> [slot EXCEPT !.len = data]
      [] off = 1 -> [slot EXCEPT !.type = data]
      [] off = 2 -> [slot EXCEPT !.checksum = data]
      [] OTHER -> [slot EXCEPT !.buffer[IF off = 3 THEN 1 ELSE off - 3] = data]

\* ((uint8_t *)&rf_rx_buffers[buffer_in_num].len)[off] = data
RxStore(slot, off, data) ==
    CASE off = 0 -> [slot EXCEPT !.len = data]
      [] off = 1 -> [slot EXCEPT !.type = data]
      [] off = 2 -> [slot EXCEPT !.checksum = data]
      [] OTHER -> [slot EXCEPT !.buffer[off - 2] = data]

\* ------------------------------------------------------------------- Init
Init ==
    /\ rfm12_state = STATE_RX_IDLE
    /\ txstate = STATUS_FREE
    /\ num_bytes = 0
    /\ bytecount = 0
    /\ buffer_in_num = 0
    /\ buffer_out_num = 0
    /\ rf_tx_buffer = [len |-> 0, type |-> 0, checksum |-> 0,
                       buffer |-> Zeros(RFM12_TX_BUFFER_SIZE)]
    /\ rf_rx_buffers = [i \in {0, 1} |->
                          [status |-> STATUS_FREE, len |-> 0, type |-> 0, checksum |-> 0,
                           buffer |-> Zeros(RFM12_RX_BUFFER_SIZE)]]
    /\ checksum = 0
    /\ channel_free_count = ChannelFreeStart
    /\ pc = "main"
    /\ arg = NoPacket
    /\ ret = NoReturn
    /\ bus = <<>>
    /\ wire = <<>>
    /\ enq = NoPacket
    /\ rxpkt = <<>>
    /\ got = [i \in {0, 1} |-> <<>>]
    /\ carrier_seen = FALSE
    /\ clear_seen = FALSE
    /\ clear_run = 0
    /\ isr_since_check = FALSE
    /\ feed = <<>>
    /\ loop = [on |-> FALSE, slot |-> 0, pkt |-> NoPacket]
    /\ rx_off = -1
    /\ rx_order = <<>>
    /\ int_on = TRUE
    /\ isr_depth = 0
    /\ rssi = FALSE

\* ---------------------------------------------------------------- helpers
\* checksum = length ^ type ^ 0xff
HeaderChecksum(length, type) == Xor(Xor(length, type), ChecksumOk)

\* ctrl.num_bytes = data + PACKET_OVERHEAD
RxTotal(data) == Ctr(data + PACKET_OVERHEAD)

\* ctrl.num_bytes = rf_tx_buffer.len + 6
TxTotal(len) == Ctr(len + TxFraming)

\* Faulty variant: the bound of the store is one too large.
RxFitsLoose(bc) == bc <= RFM12_RX_BUFFER_SIZE + 3

\* ctrl.bytecount < (RFM12_RX_BUFFER_SIZE + 3)
RxFits(bc) == bc < RFM12_RX_BUFFER_SIZE + 3

\* ctrl.bytecount == 2 && checksum != 0xff
ChecksumFails(bc, cs) == bc = 2 /\ cs # ChecksumOk

\* Faulty variant: the handler starts a reception whatever the slot's status.
InSlotAlwaysFree == TRUE

\* rf_rx_buffers[ctrl.buffer_in_num].status == STATUS_FREE
InSlotFree == rf_rx_buffers[buffer_in_num].status = STATUS_FREE

TickPcs == {"tick_sense", "tick_txstate", "tick_arm"}
TxPcs == {"tx_copy", "tx_start"}

Min(a, b) == IF a < b THEN a ELSE b

\* The bytes of a reception the model remembers: the header and the payload
\* that fits a slot.
Remember(seq, data) ==
    IF Len(seq) < RFM12_RX_BUFFER_SIZE + 3 THEN Append(seq, data) ELSE seq

\* The reset path at the end of the handler's switch.
FifoReset == <<CmdFifoClear, CmdFifoAccept>>

\* ------------------------------------------------------------ the handler
\* Faulty variant: the length byte is stored before the slot's status is
\* looked at.
IsrRxIdleStoresFirst(data) ==
    /\ rfm12_state = STATE_RX_IDLE
    /\ bytecount' = 1
    /\ checksum' = data
    /\ num_bytes' = RxTotal(data)
    /\ rf_rx_buffers' = [rf_rx_buffers EXCEPT ![buffer_in_num].len = data]
    /\ IF InSlotFree
       THEN /\ rfm12_state' = STATE_RX_ACTIVE
            /\ bus' = <<CmdRead>>
            /\ rxpkt' = <<data>>
       ELSE /\ rfm12_state' = STATE_RX_IDLE
            /\ bus' = <<CmdRead>> \o FifoReset
            /\ rxpkt' = <<>>
    /\ UNCHANGED <<txstate, buffer_in_num, buffer_out_num, rf_tx_buffer, wire, got>>

\* case STATE_RX_IDLE: the length byte.
IsrRxIdle(data) ==
    /\ rfm12_state = STATE_RX_IDLE
    /\ bytecount' = 1
    /\ checksum' = data
    /\ num_bytes' = RxTotal(data)
    /\ IF InSlotFree
       THEN /\ rfm12_state' = STATE_RX_ACTIVE
            /\ rf_rx_buffers' = [rf_rx_buffers EXCEPT ![buffer_in_num].len = data]
            /\ bus' = <<CmdRead>>
            /\ rxpkt' = <<data>>
       ELSE /\ rfm12_state' = STATE_RX_IDLE
            /\ rf_rx_buffers' = rf_rx_buffers
            /\ bus' = <<CmdRead>> \o FifoReset
            /\ rxpkt' = <<>>
    /\ UNCHANGED <<txstate, buffer_in_num, buffer_out_num, rf_tx_buffer, wire, got>>

\* Faulty variant: the end of the packet leaves buffer_in_num where it is.
IsrRxActiveNoSwitch(data) ==
    /\ rfm12_state = STATE_RX_ACTIVE
    /\ IF bytecount < num_bytes
       THEN /\ checksum' = Xor(checksum, data)
            /\ rf_rx_buffers' =
                 IF RxFits(bytecount)
                 THEN [rf_rx_buffers EXCEPT
                         ![buffer_in_num] = RxStore(@, bytecount, data)]
                 ELSE rf_rx_buffers
            /\ IF ChecksumFails(bytecount, checksum')
               THEN /\ rfm12_state' = STATE_RX_IDLE
                    /\ bytecount' = bytecount
                    /\ bus' = <<CmdRead>> \o FifoReset
                    /\ rxpkt' = <<>>
               ELSE /\ rfm12_state' = STATE_RX_ACTIVE
                    /\ bytecount' = Ctr(bytecount + 1)
                    /\ bus' = <<CmdRead>>
                    /\ rxpkt' = Remember(rxpkt, data)
            /\ UNCHANGED <<buffer_in_num, got>>
       ELSE /\ rf_rx_buffers' = [rf_rx_buffers EXCEPT
                                   ![buffer_in_num].status = STATUS_COMPLETE]
            /\ buffer_in_num' = buffer_in_num
            /\ rfm12_state' = STATE_RX_IDLE
            /\ bus' = <<CmdRead>> \o FifoReset
            /\ got' = [got EXCEPT ![buffer_in_num] = rxpkt]
            /\ rxpkt' = <<>>
            /\ UNCHANGED <<checksum, bytecount>>
    /\ UNCHANGED <<txstate, num_bytes, buffer_out_num, rf_tx_buffer, wire>>

\* case STATE_RX_ACTIVE: a header or payload byte, or the end of the packet.
IsrRxActive(data) ==
    /\ rfm12_state = STATE_RX_ACTIVE
    /\ IF bytecount < num_bytes
       THEN /\ checksum' = Xor(checksum, data)
            /\ rf_rx_buffers' =
                 IF RxFits(bytecount)
                 THEN [rf_rx_buffers EXCEPT
                         ![buffer_in_num] = RxStore(@, bytecount, data)]
                 ELSE rf_rx_buffers
            /\ IF ChecksumFails(bytecount, checksum')
               THEN /\ rfm12_state' = STATE_RX_IDLE
                    /\ bytecount' = bytecount
                    /\ bus' = <<CmdRead>> \o FifoReset
                    /\ rxpkt' = <<>>
               ELSE /\ rfm12_state' = STATE_RX_ACTIVE
                    /\ bytecount' = Ctr(bytecount + 1)
                    /\ bus' = <<CmdRead>>
                    /\ rxpkt' = Remember(rxpkt, data)
            /\ UNCHANGED <<buffer_in_num, got>>
       ELSE /\ rf_rx_buffers' = [rf_rx_buffers EXCEPT
                                   ![buffer_in_num].status = STATUS_COMPLETE]
            /\ buffer_in_num' = Other(buffer_in_num)
            /\ rfm12_state' = STATE_RX_IDLE
            /\ bus' = <<CmdRead>> \o FifoReset
            /\ got' = [got EXCEPT ![buffer_in_num] = rxpkt]
            /\ rxpkt' = <<>>
            /\ UNCHANGED <<checksum, bytecount>>
    /\ UNCHANGED <<txstate, num_bytes, buffer_out_num, rf_tx_buffer, wire>>

\* case STATE_TX: the next byte of the packet, or the end of the transmission.
IsrTx(byte) ==
    /\ rfm12_state = STATE_TX
    /\ IF bytecount < num_bytes
       THEN /\ byte \in TxFetch(bytecount)
            /\ wire' = Append(wire, byte)
            /\ bytecount' = Ctr(bytecount + 1)
            /\ bus' = <<CmdTx>>
            /\ UNCHANGED <<rfm12_state, txstate>>
       ELSE /\ byte = TxDummy
            /\ txstate' = STATUS_FREE
            /\ wire' = Append(wire, TxDummy)
            /\ rfm12_state' = STATE_RX_IDLE
            /\ bus' = <<CmdPwrReceive, CmdTx>> \o FifoReset
            /\ UNCHANGED bytecount
    /\ UNCHANGED <<num_bytes, buffer_in_num, buffer_out_num, rf_tx_buffer, rf_rx_buffers,
                   checksum, rxpkt, got>>

\* Where the handler event about to run stores the byte it reads: the len
\* field, the byte at offset bytecount from it, or nowhere.
StoreOffset ==
    IF rfm12_state = STATE_RX_IDLE
    THEN IF InSlotFree THEN 0 ELSE -1
    ELSE IF rfm12_state = STATE_RX_ACTIVE /\ bytecount < num_bytes /\ RxFits(bytecount)
    THEN bytecount
    ELSE -1

\* What every handler run leaves alone, and what it records.
IsrFrame ==
    /\ isr_since_check' = (pc \in TickPcs)
    /\ rx_off' = StoreOffset
    /\ rx_order' = IF rfm12_state = STATE_RX_ACTIVE /\ ~(bytecount < num_bytes)
                   THEN Append(rx_order, buffer_in_num)
                   ELSE rx_order
    /\ ret' = NoReturn
    /\ arg' = IF pc \in TxPcs THEN arg ELSE NoPacket
    /\ UNCHANGED <<pc, enq, tickvars>>

\* ---------------------------------------------------------------- rfm12_tick
\* if (ctrl.rfm12_state != STATE_RX_IDLE) return;
TickCheck ==
    /\ pc = "main"
    /\ pc' = IF rfm12_state # STATE_RX_IDLE THEN "main" ELSE "tick_sense"
    /\ isr_since_check' = FALSE
    /\ bus' = <<>>
    /\ ret' = NoReturn
    /\ arg' = NoPacket
    /\ UNCHANGED <<ctrlvars, bufvars, checksum, tickvars, wire, enq, rxpkt, got>>

\* Faulty variant: the carrier bit does not end the tick.
TickSenseIgnoresCarrier(carrier) ==
    /\ pc = "tick_sense"
    /\ bus' = <<CmdStatus>>
    /\ carrier_seen' = (carrier_seen \/ carrier)
    /\ clear_seen' = (clear_seen \/ ~carrier)
    /\ clear_run' = IF carrier THEN 0 ELSE Min(clear_run + 1, CHANNEL_FREE_TIME + 1)
    /\ IF channel_free_count # 0
       THEN /\ channel_free_count' = U8(channel_free_count - 1)
            /\ pc' = "main"
       ELSE /\ channel_free_count' = channel_free_count
            /\ pc' = "tick_txstate"
    /\ UNCHANGED <<ctrlvars, bufvars, checksum, arg, ret, wire, enq, rxpkt, got,
                   isr_since_check>>

\* Faulty variant: the countdown is never decremented.
TickSenseNoCountdown(carrier) ==
    /\ pc = "tick_sense"
    /\ bus' = <<CmdStatus>>
    /\ carrier_seen' = (carrier_seen \/ carrier)
    /\ clear_seen' = (clear_seen \/ ~carrier)
    /\ clear_run' = IF carrier THEN 0 ELSE Min(clear_run + 1, CHANNEL_FREE_TIME + 1)
    /\ channel_free_count' = IF carrier THEN CHANNEL_FREE_TIME ELSE channel_free_count
    /\ pc' = IF carrier \/ channel_free_count # 0 THEN "main" ELSE "tick_txstate"
    /\ UNCHANGED <<ctrlvars, bufvars, checksum, arg, ret, wire, enq, rxpkt, got,
                   isr_since_check>>

\* Faulty variant: a carrier ends the tick and leaves the countdown as it is.
TickSenseNoReset(carrier) ==
    /\ pc = "tick_sense"
    /\ bus' = <<CmdStatus>>
    /\ IF carrier
       THEN /\ channel_free_count' = channel_free_count
            /\ carrier_seen' = TRUE
            /\ clear_seen' = clear_seen
            /\ clear_run' = 0
            /\ pc' = "main"
       ELSE /\ carrier_seen' = carrier_seen
            /\ clear_seen' = TRUE
            /\ clear_run' = Min(clear_run + 1, CHANNEL_FREE_TIME + 1)
            /\ IF channel_free_count # 0
               THEN /\ channel_free_count' = U8(channel_free_count - 1)
                    /\ pc' = "main"
               ELSE /\ channel_free_count' = channel_free_count
                    /\ pc' = "tick_txstate"
    /\ UNCHANGED <<ctrlvars, bufvars, checksum, arg, ret, wire, enq, rxpkt, got,
                   isr_since_check>>

\* Faulty variant: a carrier restarts the countdown one tick short.
TickSenseShortWait(carrier) ==
    /\ pc = "tick_sense"
    /\ bus' = <<CmdStatus>>
    /\ IF carrier
       THEN /\ channel_free_count' = CHANNEL_FREE_TIME - 1
            /\ carrier_seen' = TRUE
            /\ clear_seen' = clear_seen
            /\ clear_run' = 0
            /\ pc' = "main"
       ELSE /\ carrier_seen' = carrier_seen
            /\ clear_seen' = TRUE
            /\ clear_run' = Min(clear_run + 1, CHANNEL_FREE_TIME + 1)
            /\ IF channel_free_count # 0
               THEN /\ channel_free_count' = U8(channel_free_count - 1)
                    /\ pc' = "main"
               ELSE /\ channel_free_count' = channel_free_count
                    /\ pc' = "tick_txstate"
    /\ UNCHANGED <<ctrlvars, bufvars, checksum, arg, ret, wire, enq, rxpkt, got,
                   isr_since_check>>

\* The status read under RFM12_INT_OFF, the carrier test and the countdown.
TickSense(carrier) ==
    /\ pc = "tick_sense"
    /\ bus' = <<CmdStatus>>
    /\ IF carrier
       THEN /\ channel_free_count' = CHANNEL_FREE_TIME
            /\ carrier_seen' = TRUE
            /\ clear_seen' = clear_seen
            /\ clear_run' = 0
            /\ pc' = "main"
       ELSE /\ carrier_seen' = carrier_seen
            /\ clear_seen' = TRUE
            /\ clear_run' = Min(clear_run + 1, CHANNEL_FREE_TIME + 1)
            /\ IF channel_free_count # 0
               THEN /\ channel_free_count' = U8(channel_free_count - 1)
                    /\ pc' = "main"
               ELSE /\ channel_free_count' = channel_free_count
                    /\ pc' = "tick_txstate"
    /\ UNCHANGED <<ctrlvars, bufvars, checksum, arg, ret, wire, enq, rxpkt, got,
                   isr_since_check>>

\* if (ctrl.txstate == STATUS_OCCUPIED)
\* Faulty variant: the arming is reached whether or not a packet is queued.
TickTxstateAlways ==
    /\ pc = "tick_txstate"
    /\ pc' = "tick_arm"
    /\ bus' = <<>>
    /\ UNCHANGED <<ctrlvars, bufvars, checksum, tickvars, arg, ret, wire, enq, rxpkt, got,
                   isr_since_check>>

\* if (ctrl.txstate == STATUS_OCCUPIED)
TickTxstate ==
    /\ pc = "tick_txstate"
    /\ pc' = IF txstate = STATUS_OCCUPIED THEN "tick_arm" ELSE "main"
    /\ bus' = <<>>
    /\ UNCHANGED <<ctrlvars, bufvars, checksum, tickvars, arg, ret, wire, enq, rxpkt, got,
                   isr_since_check>>

\* The arming of the transmission, between RFM12_INT_OFF and RFM12_INT_ON.
TickArm ==
    /\ pc = "tick_arm"
    /\ num_bytes' = TxTotal(rf_tx_buffer.len)
    /\ bytecount' = 0
    /\ rfm12_state' = STATE_TX
    /\ wire' = wire \o <<PREAMBLE, PREAMBLE>>
    /\ bus' = <<CmdTx, CmdTx, CmdPwrTransmit>>
    /\ pc' = "main"
    /\ UNCHANGED <<txstate, buffer_in_num, buffer_out_num, bufvars, checksum, tickvars,
                   arg, ret, enq, rxpkt, got, isr_since_check>>

\* ------------------------------------------------------------------ rfm12_tx
\* Faulty variant: rfm12_tx without its test of ctrl.txstate.
TxCallNoBusyTest(len, type, data) ==
    /\ pc = "main"
    /\ bus' = <<>>
    /\ arg' = [len |-> len, type |-> type, data |-> data]
    /\ IF len > RFM12_TX_BUFFER_SIZE
       THEN /\ ret' = RFM12_TX_ERROR
            /\ pc' = "main"
       ELSE /\ ret' = NoReturn
            /\ pc' = "tx_copy"
    /\ UNCHANGED <<ctrlvars, bufvars, checksum, tickvars, wire, enq, rxpkt, got,
                   isr_since_check>>

\* Faulty variant: rfm12_tx testing ctrl.txstate before the length.
TxCallBusyFirst(len, type, data) ==
    /\ pc = "main"
    /\ bus' = <<>>
    /\ arg' = [len |-> len, type |-> type, data |-> data]
    /\ IF txstate # STATUS_FREE
       THEN /\ ret' = RFM12_TX_OCCUPIED
            /\ pc' = "main"
       ELSE IF len > RFM12_TX_BUFFER_SIZE
       THEN /\ ret' = RFM12_TX_ERROR
            /\ pc' = "main"
       ELSE /\ ret' = NoReturn
            /\ pc' = "tx_copy"
    /\ UNCHANGED <<ctrlvars, bufvars, checksum, tickvars, wire, enq, rxpkt, got,
                   isr_since_check>>

\* The two early returns of rfm12_tx.
TxCall(len, type, data) ==
    /\ pc = "main"
    /\ bus' = <<>>
    /\ arg' = [len |-> len, type |-> type, data |-> data]
    /\ IF len > RFM12_TX_BUFFER_SIZE
       THEN /\ ret' = RFM12_TX_ERROR
            /\ pc' = "main"
       ELSE IF txstate # STATUS_FREE
       THEN /\ ret' = RFM12_TX_OCCUPIED
            /\ pc' = "main"
       ELSE /\ ret' = NoReturn
            /\ pc' = "tx_copy"
    /\ UNCHANGED <<ctrlvars, bufvars, checksum, tickvars, wire, enq, rxpkt, got,
                   isr_since_check>>

\* memcpy(rf_tx_buffer.buffer, data, len)
TxCopy ==
    /\ pc = "tx_copy"
    /\ rf_tx_buffer' = [rf_tx_buffer EXCEPT
                          !.buffer = [i \in 1 .. RFM12_TX_BUFFER_SIZE |->
                                        IF i <= arg.len THEN arg.data[i] ELSE @[i]]]
    /\ pc' = "tx_start"
    /\ bus' = <<>>
    /\ UNCHANGED <<ctrlvars, rf_rx_buffers, checksum, tickvars, arg, ret, wire, enq,
                   rxpkt, got, isr_since_check>>

\* Faulty variant: rfm12_start_tx also starts the transmission.
StartTxArms ==
    /\ pc = "tx_start"
    /\ pc' = "main"
    /\ bus' = <<>>
    /\ arg' = arg
    /\ IF txstate # STATUS_FREE
       THEN /\ ret' = RFM12_TX_OCCUPIED
            /\ UNCHANGED <<txstate, rf_tx_buffer, enq, wire, rfm12_state, num_bytes,
                           bytecount>>
       ELSE /\ rf_tx_buffer' = [rf_tx_buffer EXCEPT
                                  !.len = arg.len,
                                  !.type = arg.type,
                                  !.checksum = HeaderChecksum(arg.len, arg.type)]
            /\ txstate' = STATUS_OCCUPIED
            /\ ret' = RFM12_TX_ENQUEUED
            /\ enq' = arg
            /\ wire' = <<>>
            /\ num_bytes' = TxTotal(arg.len)
            /\ bytecount' = 0
            /\ rfm12_state' = STATE_TX
    /\ UNCHANGED <<buffer_in_num, buffer_out_num, rf_rx_buffers, checksum, tickvars,
                   rxpkt, got, isr_since_check>>

\* rfm12_start_tx(type, len), called by rfm12_tx.
StartTx ==
    /\ pc = "tx_start"
    /\ pc' = "main"
    /\ bus' = <<>>
    /\ arg' = arg
    /\ IF txstate # STATUS_FREE
       THEN /\ ret' = RFM12_TX_OCCUPIED
            /\ UNCHANGED <<txstate, rf_tx_buffer, enq, wire>>
       ELSE /\ rf_tx_buffer' = [rf_tx_buffer EXCEPT
                                  !.len = arg.len,
                                  !.type = arg.type,
                                  !.checksum = HeaderChecksum(arg.len, arg.type)]
            /\ txstate' = STATUS_OCCUPIED
            /\ ret' = RFM12_TX_ENQUEUED
            /\ enq' = arg
            /\ wire' = <<>>
    /\ UNCHANGED <<rfm12_state, num_bytes, bytecount, buffer_in_num, buffer_out_num,
                   rf_rx_buffers, checksum, tickvars, rxpkt, got, isr_since_check>>

\* ------------------------------------------------------------ rfm12_rx_clear
\* Faulty variant: the slot's length is cleared with its status.
RxClearFreeWipes ==
    /\ pc = "main"
    /\ rf_rx_buffers' = [rf_rx_buffers EXCEPT ![buffer_out_num].status = STATUS_FREE,
                                              ![buffer_out_num].len = 0]
    /\ got' = [got EXCEPT ![buffer_out_num] = <<>>]
    /\ pc' = "clear_switch"
    /\ bus' = <<>>
    /\ ret' = NoReturn
    /\ arg' = NoPacket
    /\ UNCHANGED <<ctrlvars, rf_tx_buffer, checksum, tickvars, wire, enq, rxpkt,
                   isr_since_check>>

\* rf_rx_buffers[ctrl.buffer_out_num].status = STATUS_FREE;
RxClearFree ==
    /\ pc = "main"
    /\ rf_rx_buffers' = [rf_rx_buffers EXCEPT ![buffer_out_num].status = STATUS_FREE]
    /\ got' = [got EXCEPT ![buffer_out_num] = <<>>]
    /\ pc' = "clear_switch"
    /\ bus' = <<>>
    /\ ret' = NoReturn
    /\ arg' = NoPacket
    /\ UNCHANGED <<ctrlvars, rf_tx_buffer, checksum, tickvars, wire, enq, rxpkt,
                   isr_since_check>>

\* Faulty variant: the wrong index is toggled.
RxClearSwitchIn ==
    /\ pc = "clear_switch"
    /\ buffer_in_num' = Other(buffer_in_num)
    /\ pc' = "main"
    /\ bus' = <<>>
    /\ UNCHANGED <<rfm12_state, txstate, num_bytes, bytecount, buffer_out_num, bufvars,
                   checksum, tickvars, arg, ret, wire, enq, rxpkt, got, isr_since_check>>

\* ctrl.buffer_out_num ^= 1;
RxClearSwitch ==
    /\ pc = "clear_switch"
    /\ buffer_out_num' = Other(buffer_out_num)
    /\ pc' = "main"
    /\ bus' = <<>>
    /\ UNCHANGED <<rfm12_state, txstate, num_bytes, bytecount, buffer_in_num, bufvars,
                   checksum, tickvars, arg, ret, wire, enq, rxpkt, got, isr_since_check>>

\* ------------------------------------------------------- the environment
\* The byte the FIFO delivers next: a length byte when the handler is idle,
\* then a type, then a checksum that fits the header or one that does not,
\* then payload.
RxChecksums(in) ==
    IF Len(rxpkt) >= 2
    THEN LET ok == HeaderChecksum(rxpkt[1], rxpkt[2])
         IN {ok} \cup {Xor(ok, flip) : flip \in in.rxbad}
    ELSE in.rxdata

RxInputs(in) ==
    IF rfm12_state = STATE_RX_IDLE THEN in.rxlens
    ELSE IF bytecount = 1 THEN in.rxtypes
    ELSE IF bytecount = 2 THEN RxChecksums(in)
    ELSE in.rxdata

HandlerRxIdle(in) ==
    /\ \E data \in RxInputs(in) : IsrRxIdle(data)
    /\ IsrFrame
    /\ UNCHANGED <<loopvars, maskvars>>

HandlerRxActive(in) ==
    /\ \E data \in RxInputs(in) : IsrRxActive(data)
    /\ IsrFrame
    /\ UNCHANGED <<loopvars, maskvars>>

HandlerTx ==
    /\ \E byte \in TxFetch(bytecount) \cup {TxDummy} : IsrTx(byte)
    /\ IsrFrame
    /\ UNCHANGED <<loopvars, maskvars>>

Tick1 == TickCheck /\ UNCHANGED <<loopvars, maskvars, rx_off, rx_order>>
Tick2(in) == (\E carrier \in in.carrier : TickSense(carrier)) /\ UNCHANGED <<loopvars, maskvars, rx_off, rx_order>>
Tick3 == TickTxstate /\ UNCHANGED <<loopvars, maskvars, rx_off, rx_order>>
Tick4 == TickArm /\ UNCHANGED <<loopvars, maskvars, rx_off, rx_order>>

Tx1(in) ==
    /\ \E len \in in.txlens, type \in in.txtypes : \E data \in Payloads(in, len) :
          TxCall(len, type, data)
    /\ UNCHANGED <<loopvars, maskvars, rx_off, rx_order>>
Tx2 == TxCopy /\ UNCHANGED <<loopvars, maskvars, rx_off, rx_order>>
Tx3 == StartTx /\ UNCHANGED <<loopvars, maskvars, rx_off, rx_order>>

Clear1 ==
    /\ RxClearFree
    /\ rx_order' = SelectSeq(rx_order, LAMBDA i : i # buffer_out_num)
    /\ UNCHANGED <<loopvars, maskvars, rx_off>>
Clear2 == RxClearSwitch /\ UNCHANGED <<loopvars, maskvars, rx_off, rx_order>>

\* -------------------------------------------------------------------- Spec
\* The whole driver from start-up, with every carrier reading.
CtlRxIdle == HandlerRxIdle(ControlInputs)
CtlRxActive == HandlerRxActive(ControlInputs)
CtlSense == Tick2(ControlInputs)
CtlTx == Tx1(ControlInputs)

Next ==
    \/ CtlRxIdle
    \/ CtlRxActive
    \/ HandlerTx
    \/ Tick1
    \/ CtlSense
    \/ Tick3
    \/ Tick4
    \/ CtlTx
    \/ Tx2
    \/ Tx3
    \/ Clear1
    \/ Clear2

Spec == Init /\ [][Next]_vars

\* ------------------------------------------------------------------ SpecTx
\* The transmit path: the application enqueues and ticks, the handler sends;
\* nothing is received.
TxqSense == Tick2(TransmitInputs)
TxqTx == Tx1(TransmitInputs)

NextTx ==
    \/ HandlerTx
    \/ Tick1
    \/ TxqSense
    \/ Tick3
    \/ Tick4
    \/ TxqTx
    \/ Tx2
    \/ Tx3

SpecTx == Init /\ [][NextTx]_vars

\* ------------------------------------------------------------------ SpecRT
\* Loop-back: a packet is enqueued and transmitted, then the bytes that
\* followed the sync bytes on the air (all but the dummy byte written after
\* the transmitter is switched off) are delivered one per handler event to
\* the receiver, and the application releases the slot.
Sending == ~loop.on

RtHandlerTx == Sending /\ HandlerTx
RtTick1 == Sending /\ Tick1
RtSense == Sending /\ Tick2(LoopInputs)
RtTick3 == Sending /\ Tick3
RtTick4 == Sending /\ Tick4
RtTx1 == Sending /\ txstate = STATUS_FREE /\ Tx1(LoopInputs)
RtTx2 == Sending /\ Tx2
RtTx3 == Sending /\ Tx3

Loopback ==
    /\ Sending
    /\ pc = "main"
    /\ rfm12_state = STATE_RX_IDLE
    /\ txstate = STATUS_FREE
    /\ wire # <<>>
    /\ InSlotFree
    /\ feed' = SubSeq(wire, 5, Len(wire) - 1)
    /\ loop' = [on |-> TRUE, slot |-> buffer_in_num, pkt |-> enq]
    /\ bus' = <<>>
    /\ UNCHANGED <<ctrlvars, bufvars, checksum, tickvars, pc, arg, ret, wire, enq,
                   rxpkt, got, isr_since_check, rx_off, rx_order, maskvars>>

RtRxIdle ==
    /\ loop.on
    /\ feed # <<>>
    /\ IsrRxIdle(Head(feed))
    /\ IsrFrame
    /\ feed' = Tail(feed)
    /\ loop' = loop
    /\ UNCHANGED maskvars

RtRxActive ==
    /\ loop.on
    /\ feed # <<>>
    /\ IsrRxActive(Head(feed))
    /\ IsrFrame
    /\ feed' = Tail(feed)
    /\ loop' = loop
    /\ UNCHANGED maskvars

RtClear1 == loop.on /\ feed = <<>> /\ Clear1

RtClear2 ==
    /\ loop.on
    /\ RxClearSwitch
    /\ loop' = [on |-> FALSE, slot |-> 0, pkt |-> NoPacket]
    /\ feed' = feed
    /\ UNCHANGED <<maskvars, rx_off, rx_order>>

NextRT ==
    \/ RtHandlerTx
    \/ RtTick1
    \/ RtSense
    \/ RtTick3
    \/ RtTick4
    \/ RtTx1
    \/ RtTx2
    \/ RtTx3
    \/ Loopback
    \/ RtRxIdle
    \/ RtRxActive
    \/ RtClear1
    \/ RtClear2

SpecRT == Init /\ [][NextRT]_vars

\* ---------------------------------------------------------------- SpecLive
\* The driver under the scheduling the library asks for: rfm12_tick is called
\* again and again and every call in progress returns, the chip raises a
\* ready event for every byte of a transmission or reception in progress,
\* and the channel shows a carrier to at most one tick.
LiveRxIdle == HandlerRxIdle(LiveInputs)
LiveRxActive == HandlerRxActive(LiveInputs)
LiveSense ==
    /\ \E carrier \in (IF carrier_seen THEN {FALSE} ELSE LiveInputs.carrier) :
          TickSense(carrier)
    /\ UNCHANGED <<loopvars, maskvars, rx_off, rx_order>>
LiveTx == Tx1(LiveInputs)

LiveTick == Tick1 \/ LiveSense \/ Tick3 \/ Tick4
LiveCall == Tx2 \/ Tx3

NextLive ==
    \/ HandlerTx
    \/ LiveRxIdle
    \/ LiveRxActive
    \/ LiveTick
    \/ LiveTx
    \/ LiveCall

SpecLive ==
    /\ Init
    /\ [][NextLive]_vars
    /\ WF_vars(LiveTick)
    /\ WF_vars(LiveCall)
    /\ WF_vars(HandlerTx)
    /\ WF_vars(LiveRxActive)

\* ----------------------------------------------------------------- SpecInt
\* The same driver with the interrupt mask spelled out.  The handler is
\* entered whenever its source is enabled and masks it as its first
\* statement; the chip holds its interrupt line until the status read inside
\* the handler, so no second event is taken in between.  While a handler
\* execution is in progress the mainline does not run.  The two masked
\* stretches of rfm12_tick are cut at every statement.
IntInputs ==
    [txlens |-> {RFM12_TX_BUFFER_SIZE}, txtypes |-> {1}, txdata |-> {16},
     rxlens |-> {0}, rxtypes |-> {1}, rxdata |-> {51}, rxbad |-> {},
     carrier |-> BOOLEAN]

IntQuiet ==
    UNCHANGED <<ctrlvars, bufvars, checksum, tickvars, arg, ret, wire, enq, rxpkt, got,
                isr_since_check, loopvars, rx_off, rx_order>>

Mainline == isr_depth = 0

\* Faulty variant: the handler leaves its source enabled.
IntIsrEnterOpen ==
    /\ int_on
    /\ isr_depth < IsrDepthCap
    /\ isr_depth' = isr_depth + 1
    /\ bus' = <<>>
    /\ UNCHANGED <<pc, int_on, rssi>>
    /\ IntQuiet

\* ISR(RFM12_INT_VECT, ISR_NOBLOCK) { RFM12_INT_OFF();
IntIsrEnter ==
    /\ int_on
    /\ isr_depth < IsrDepthCap
    /\ isr_depth' = isr_depth + 1
    /\ int_on' = FALSE
    /\ bus' = <<>>
    /\ UNCHANGED <<pc, rssi>>
    /\ IntQuiet

\* One iteration of the handler's loop with the FFIT bit set.
IntIsrRxIdle == isr_depth > 0 /\ HandlerRxIdle(IntInputs)
IntIsrRxActive == isr_depth > 0 /\ HandlerRxActive(IntInputs)
IntIsrTx == isr_depth > 0 /\ HandlerTx

\* RFM12_INT_ON(); }
IntIsrExit ==
    /\ isr_depth > 0
    /\ isr_depth' = isr_depth - 1
    /\ int_on' = TRUE
    /\ bus' = <<>>
    /\ UNCHANGED <<pc, rssi>>
    /\ IntQuiet

IntTickCheck == Mainline /\ Tick1

\* RFM12_INT_OFF();
IntSenseOff ==
    /\ Mainline
    /\ pc = "tick_sense"
    /\ int_on' = FALSE
    /\ pc' = "sense_read"
    /\ bus' = <<>>
    /\ UNCHANGED <<isr_depth, rssi>>
    /\ IntQuiet

\* status = rfm12_read(RFM12_CMD_STATUS);
IntSenseRead ==
    /\ Mainline
    /\ pc = "sense_read"
    /\ rssi' \in IntInputs.carrier
    /\ bus' = <<CmdStatus>>
    /\ pc' = "sense_on"
    /\ UNCHANGED <<int_on, isr_depth>>
    /\ IntQuiet

\* RFM12_INT_ON();
IntSenseOn ==
    /\ Mainline
    /\ pc = "sense_on"
    /\ int_on' = TRUE
    /\ pc' = "sense_test"
    /\ bus' = <<>>
    /\ UNCHANGED <<isr_depth, rssi>>
    /\ IntQuiet

\* The carrier test and the countdown.
IntSenseTest ==
    /\ Mainline
    /\ pc = "sense_test"
    /\ bus' = <<>>
    /\ IF rssi
       THEN /\ channel_free_count' = CHANNEL_FREE_TIME
            /\ carrier_seen' = TRUE
            /\ clear_seen' = clear_seen
            /\ clear_run' = 0
            /\ pc' = "main"
       ELSE /\ carrier_seen' = carrier_seen
            /\ clear_seen' = TRUE
            /\ clear_run' = Min(clear_run + 1, CHANNEL_FREE_TIME + 1)
            /\ IF channel_free_count # 0
               THEN /\ channel_free_count' = U8(channel_free_count - 1)
                    /\ pc' = "main"
               ELSE /\ channel_free_count' = channel_free_count
                    /\ pc' = "tick_txstate"
    /\ UNCHANGED <<ctrlvars, bufvars, checksum, arg, ret, wire, enq, rxpkt, got,
                   isr_since_check, loopvars, rx_off, rx_order, maskvars>>

IntTickTxstate == Mainline /\ Tick3

\* Faulty variant: the arming starts without masking the interrupt.
IntArmOffOpen ==
    /\ Mainline
    /\ pc = "tick_arm"
    /\ pc' = "arm_num"
    /\ bus' = <<>>
    /\ UNCHANGED <<int_on, isr_depth, rssi>>
    /\ IntQuiet

\* RFM12_INT_OFF();
IntArmOff ==
    /\ Mainline
    /\ pc = "tick_arm"
    /\ int_on' = FALSE
    /\ pc' = "arm_num"
    /\ bus' = <<>>
    /\ UNCHANGED <<isr_depth, rssi>>
    /\ IntQuiet

\* ctrl.num_bytes = rf_tx_buffer.len + 6;
IntArmNum ==
    /\ Mainline
    /\ pc = "arm_num"
    /\ num_bytes' = TxTotal(rf_tx_buffer.len)
    /\ pc' = "arm_count"
    /\ bus' = <<>>
    /\ UNCHANGED <<rfm12_state, txstate, bytecount, buffer_in_num, buffer_out_num, bufvars,
                   checksum, tickvars, arg, ret, wire, enq, rxpkt, got, isr_since_check,
                   loopvars, rx_off, rx_order, maskvars>>

\* ctrl.bytecount = 0;
IntArmCount ==
    /\ Mainline
    /\ pc = "arm_count"
    /\ bytecount' = 0
    /\ pc' = "arm_state"
    /\ bus' = <<>>
    /\ UNCHANGED <<rfm12_state, txstate, num_bytes, buffer_in_num, buffer_out_num, bufvars,
                   checksum, tickvars, arg, ret, wire, enq, rxpkt, got, isr_since_check,
                   loopvars, rx_off, rx_order, maskvars>>

\* ctrl.rfm12_state = STATE_TX;
IntArmState ==
    /\ Mainline
    /\ pc = "arm_state"
    /\ rfm12_state' = STATE_TX
    /\ pc' = "arm_pre1"
    /\ bus' = <<>>
    /\ UNCHANGED <<txstate, num_bytes, bytecount, buffer_in_num, buffer_out_num, bufvars,
                   checksum, tickvars, arg, ret, wire, enq, rxpkt, got, isr_since_check,
                   loopvars, rx_off, rx_order, maskvars>>

\* rfm12_data(RFM12_CMD_TX | PREAMBLE); twice
IntArmPreamble ==
    /\ Mainline
    /\ pc \in {"arm_pre1", "arm_pre2"}
    /\ wire' = Append(wire, PREAMBLE)
    /\ bus' = <<CmdTx>>
    /\ pc' = IF pc = "arm_pre1" THEN "arm_pre2" ELSE "arm_et"
    /\ UNCHANGED <<ctrlvars, bufvars, checksum, tickvars, arg, ret, enq, rxpkt, got,
                   isr_since_check, loopvars, rx_off, rx_order, maskvars>>

\* rfm12_data(RFM12_CMD_PWRMGT | PWRMGT_DEFAULT | RFM12_PWRMGT_ET);
IntArmEt ==
    /\ Mainline
    /\ pc = "arm_et"
    /\ bus' = <<CmdPwrTransmit>>
    /\ pc' = "arm_on"
    /\ UNCHANGED maskvars
    /\ IntQuiet

\* RFM12_INT_ON();
IntArmOn ==
    /\ Mainline
    /\ pc = "arm_on"
    /\ int_on' = TRUE
    /\ pc' = "main"
    /\ bus' = <<>>
    /\ UNCHANGED <<isr_depth, rssi>>
    /\ IntQuiet

IntTx1 == Mainline /\ Tx1(IntInputs)
IntTx2 == Mainline /\ Tx2
IntTx3 == Mainline /\ Tx3
IntClear1 == Mainline /\ Clear1
IntClear2 == Mainline /\ Clear2

NextInt ==
    \/ IntIsrEnter
    \/ IntIsrRxIdle
    \/ IntIsrRxActive
    \/ IntIsrTx
    \/ IntIsrExit
    \/ IntTickCheck
    \/ IntSenseOff
    \/ IntSenseRead
    \/ IntSenseOn
    \/ IntSenseTest
    \/ IntTickTxstate
    \/ IntArmOff
    \/ IntArmNum
    \/ IntArmCount
    \/ IntArmState
    \/ IntArmPreamble
    \/ IntArmEt
    \/ IntArmOn
    \/ IntTx1
    \/ IntTx2
    \/ IntTx3
    \/ IntClear1
    \/ IntClear2

SpecInt == Init /\ [][NextInt]_vars

\* ----------------------------------------------------------------- SpecLen
\* The handler alone, fed a first packet of every length a byte can announce
\* and short packets after it.
LenInputs ==
    [rxlens |-> IF rf_rx_buffers[0].status = STATUS_FREE THEN 0 .. ByteMod - 1 ELSE {0},
     rxtypes |-> {1}, rxdata |-> {51}, rxbad |-> {}]

LenRxIdle == HandlerRxIdle(LenInputs)
LenRxActive == HandlerRxActive(LenInputs)

NextLen ==
    \/ LenRxIdle
    \/ LenRxActive

SpecLen == Init /\ [][NextLen]_vars

\* ------------------------------------------------------------------ SpecRx
\* The receive path: the handler receives, the application clears; nothing is
\* enqueued.
RcvRxIdle == HandlerRxIdle(ReceiveInputs)
RcvRxActive == HandlerRxActive(ReceiveInputs)

NextRx ==
    \/ RcvRxIdle
    \/ RcvRxActive
    \/ Clear1
    \/ Clear2

SpecRx == Init /\ [][NextRx]_vars

\* ----------------------------------------------------------------- SpecBuf
\* The receive path with an application that calls rfm12_rx_clear only when
\* rfm12_rx_status() is STATUS_COMPLETE.
BufClear1 == rf_rx_buffers[buffer_out_num].status = STATUS_COMPLETE /\ Clear1

NextBuf ==
    \/ RcvRxIdle
    \/ RcvRxActive
    \/ BufClear1
    \/ Clear2

SpecBuf == Init /\ [][NextBuf]_vars

TypeOK ==
    /\ Len(rx_order) <= 2 /\ \A k \in 1 .. Len(rx_order) : rx_order[k] \in {0, 1}
    /\ rfm12_state \in {STATE_RX_IDLE, STATE_RX_ACTIVE, STATE_TX}
    /\ txstate \in {STATUS_FREE, STATUS_OCCUPIED}
    /\ num_bytes \in 0 .. 255
    /\ bytecount \in 0 .. 255
    /\ buffer_in_num \in {0, 1}
    /\ buffer_out_num \in {0, 1}
    /\ channel_free_count \in 0 .. 255

\* ================================================================= claims
\* What the wire carries for packet p up to the end of its payload.
WireOf(p) ==
    <<PREAMBLE, PREAMBLE, SYNC_MSB, SYNC_LSB, p.len, p.type,
      Xor(Xor(p.len, p.type), 255)>> \o p.data

Transmitted == rfm12_state = STATE_RX_IDLE /\ txstate = STATUS_FREE /\ wire # <<>>

\* C1: after a successful enqueue the bytes written to the transmit register
\* are, in order, the two preamble bytes, the two sync bytes, length, type,
\* length XOR type XOR 0xFF and the payload bytes handed to the enqueue; the
\* tick writes the first two, the handler one per ready event, and a finished
\* transmission has written them all.
C1_WireOrder ==
    /\ \A i \in 1 .. Min(Len(wire), Len(WireOf(enq))) : wire[i] = WireOf(enq)[i]
    /\ rfm12_state = STATE_TX => Len(wire) = 2 + bytecount
    /\ Transmitted => Len(wire) > Len(WireOf(enq))

C1_Witness ==
    /\ Transmitted
    /\ enq.len = RFM12_TX_BUFFER_SIZE
    /\ enq.data[1] # enq.data[RFM12_TX_BUFFER_SIZE]
    /\ Len(wire) = enq.len + 9

\* A step that enters rfm12_tx.
TxEntry == pc = "main" /\ arg'.len >= 0 /\ pc' \in {"main", "tx_copy"}

TxUntouched == UNCHANGED <<rf_tx_buffer, txstate>>

\* C5 as claimed: with a packet queued, rfm12_tx returns RFM12_TX_OCCUPIED for
\* any type, length and payload and leaves the transmit buffer and txstate
\* alone.
C5_Original ==
    [][(TxEntry /\ txstate = STATUS_OCCUPIED)
         => (ret' = RFM12_TX_OCCUPIED /\ TxUntouched)]_vars

\* C5 as amended: with a packet queued, rfm12_tx leaves the transmit buffer
\* and txstate alone for any type, length and payload; it returns
\* RFM12_TX_OCCUPIED when the length is within the capacity and
\* RFM12_TX_ERROR when it is not.
C5_BusyKeepsPacket ==
    [][(TxEntry /\ txstate = STATUS_OCCUPIED)
         => /\ TxUntouched
            /\ pc' = "main"
            /\ ret' = IF arg'.len <= RFM12_TX_BUFFER_SIZE
                      THEN RFM12_TX_OCCUPIED ELSE RFM12_TX_ERROR]_vars

C5_Witness ==
    /\ ret = RFM12_TX_OCCUPIED
    /\ txstate = STATUS_OCCUPIED
    /\ arg.len = RFM12_TX_BUFFER_SIZE
    /\ arg.data # enq.data

\* C6: rfm12_tx with a length above the capacity returns RFM12_TX_ERROR and
\* changes nothing, whatever txstate is.
C6_TooLargeNoChange ==
    [][(TxEntry /\ arg'.len > RFM12_TX_BUFFER_SIZE)
         => /\ ret' = RFM12_TX_ERROR
            /\ pc' = "main"
            /\ UNCHANGED <<rf_tx_buffer, txstate, rfm12_state, num_bytes, bytecount,
                           buffer_in_num, buffer_out_num, rf_rx_buffers>>]_vars

C6_Witness ==
    /\ ret = RFM12_TX_ERROR
    /\ arg.len = RFM12_TX_BUFFER_SIZE + 1
    /\ txstate = STATUS_OCCUPIED

\* A step of the mainline; every handler step issues a bus command and leaves
\* pc alone.
MainlineStep == pc' # pc \/ bus' = <<>>
HandlerStep == pc' = pc /\ bus' # <<>>

\* A step of rfm12_tick.
TickStep ==
    /\ MainlineStep
    /\ \/ pc \in TickPcs
       \/ pc = "main" /\ pc' \in {"main", "tick_sense"} /\ arg' = NoPacket

\* The tick's status read, with and without a carrier.
CarrierTick == pc = "tick_sense" /\ pc' # pc /\ clear_run' = 0
ClearTick == pc = "tick_sense" /\ pc' # pc /\ clear_run' > 0

Issued(cmd) == \E i \in 1 .. Len(bus') : bus'[i] = cmd

\* C7: while every sensing tick has read a carrier, no tick is on its way to
\* arm a transmission and rfm12_state is never STATE_TX, queued packet or not;
\* a tick that reads a carrier sets channel_free_count to CHANNEL_FREE_TIME,
\* returns, and changes nothing else of the driver.
C7_CarrierBlocksTx ==
    [][/\ ~clear_seen' => /\ rfm12_state' # STATE_TX
                          /\ pc' \notin {"tick_txstate", "tick_arm"}
       /\ CarrierTick => /\ channel_free_count' = CHANNEL_FREE_TIME
                         /\ pc' = "main"
                         /\ UNCHANGED <<ctrlvars, bufvars>>]_vars

C7_Witness ==
    /\ ~clear_seen
    /\ carrier_seen
    /\ txstate = STATUS_OCCUPIED
    /\ rfm12_state = STATE_RX_IDLE
    /\ channel_free_count = CHANNEL_FREE_TIME
    /\ pc = "main"
    /\ bus = <<CmdStatus>>

\* C8: once a tick has sensed a carrier, channel_free_count is
\* CHANNEL_FREE_TIME less the carrier-free ticks since; each of the first
\* CHANNEL_FREE_TIME carrier-free ticks only decrements it and returns, the
\* next one goes on to the transmit test and, with a packet queued, sets
\* rfm12_state to STATE_TX; a tick that senses a carrier restarts the count.
C8_WaitsFreeTime ==
    /\ [](carrier_seen =>
            channel_free_count = CHANNEL_FREE_TIME - Min(clear_run, CHANNEL_FREE_TIME))
    /\ [][/\ (carrier_seen /\ ClearTick /\ clear_run < CHANNEL_FREE_TIME) =>
               /\ pc' = "main"
               /\ channel_free_count' = channel_free_count - 1
               /\ UNCHANGED <<ctrlvars, bufvars>>
          /\ (carrier_seen /\ ClearTick /\ clear_run >= CHANNEL_FREE_TIME) =>
               pc' = "tick_txstate"
          /\ (pc = "tick_txstate" /\ pc' # pc) =>
               pc' = IF txstate = STATUS_OCCUPIED THEN "tick_arm" ELSE "main"
          /\ (pc = "tick_arm" /\ pc' # pc) =>
               (rfm12_state' = STATE_TX /\ txstate = STATUS_OCCUPIED)
          /\ CarrierTick => channel_free_count' = CHANNEL_FREE_TIME]_vars

C8_Witness ==
    /\ carrier_seen
    /\ clear_run = CHANNEL_FREE_TIME + 1
    /\ rfm12_state = STATE_TX
    /\ bytecount = 0
    /\ bus = <<CmdTx, CmdTx, CmdPwrTransmit>>

\* C9: a step of rfm12_tick taken while rfm12_state is STATE_RX_ACTIVE or
\* STATE_TX writes none of rfm12_state, bytecount and num_bytes and issues no
\* transmit command.
C9_TickNeverDisturbs ==
    [][(TickStep /\ rfm12_state # STATE_RX_IDLE) =>
          /\ UNCHANGED <<rfm12_state, bytecount, num_bytes>>
          /\ ~Issued(CmdTx)
          /\ ~Issued(CmdPwrTransmit)]_vars

\* ------------------------------------------------------------- reception
HeaderOk(p) == Len(p) >= 3 /\ Xor(Xor(p[1], p[2]), p[3]) = ChecksumOk

InSlot == rf_rx_buffers[buffer_in_num]

C4_NoOverwrite ==
    [][(HandlerStep /\ rfm12_state = STATE_RX_IDLE /\ InSlot.status # STATUS_FREE) =>
          /\ UNCHANGED <<rf_rx_buffers, buffer_in_num, buffer_out_num>>
          /\ bus' = <<CmdRead>> \o FifoReset
          /\ rfm12_state' = STATE_RX_IDLE]_vars

C4_Witness ==
    /\ rfm12_state = STATE_RX_IDLE
    /\ bus = <<CmdRead>> \o FifoReset
    /\ \A i \in {0, 1} : rf_rx_buffers[i].status = STATUS_COMPLETE
    /\ num_bytes = RxTotal(RFM12_RX_BUFFER_SIZE)
    /\ bytecount = 1
    /\ InSlot.len = 0

C2_RoundTrip ==
    (loop.on /\ feed = <<>> /\ pc = "main") =>
        LET s == rf_rx_buffers[loop.slot]
        IN /\ s.status = STATUS_COMPLETE
           /\ s.len = loop.pkt.len
           /\ s.type = loop.pkt.type
           /\ \A k \in 1 .. loop.pkt.len : s.buffer[k] = loop.pkt.data[k]
           /\ buffer_in_num = Other(loop.slot)
           /\ rfm12_state = STATE_RX_IDLE

C2_Witness ==
    /\ loop.on
    /\ feed = <<>>
    /\ pc = "main"
    /\ loop.slot = 1
    /\ loop.pkt.len = RFM12_TX_BUFFER_SIZE
    /\ loop.pkt.type = 160
    /\ loop.pkt.data[1] # loop.pkt.data[RFM12_TX_BUFFER_SIZE]
    /\ rf_rx_buffers[1].status = STATUS_COMPLETE
    /\ rf_rx_buffers[1].buffer = loop.pkt.data

EnqueueStep == MainlineStep /\ (TxEntry \/ pc \in TxPcs)

\* C12: no step of rfm12_tx / rfm12_start_tx changes rfm12_state, bytecount,
\* num_bytes, buffer_in_num, buffer_out_num or a receive slot, or issues a bus
\* command; the step that returns RFM12_TX_ENQUEUED leaves the transmit
\* buffer holding the payload, len, type and checksum of the call with
\* txstate Occupied; only a step of rfm12_tick makes rfm12_state STATE_TX.
C12_EnqueueFrame ==
    [][/\ EnqueueStep =>
            /\ UNCHANGED <<rfm12_state, bytecount, num_bytes, buffer_in_num,
                           buffer_out_num, rf_rx_buffers>>
            /\ bus' = <<>>
       /\ (EnqueueStep /\ ret' # RFM12_TX_ENQUEUED) =>
            /\ txstate' = txstate
            /\ UNCHANGED <<rf_tx_buffer.len, rf_tx_buffer.type, rf_tx_buffer.checksum>>
       /\ (EnqueueStep /\ ret' = RFM12_TX_ENQUEUED) =>
            /\ txstate = STATUS_FREE
            /\ txstate' = STATUS_OCCUPIED
            /\ rf_tx_buffer'.len = arg.len
            /\ rf_tx_buffer'.type = arg.type
            /\ rf_tx_buffer'.checksum = Xor(Xor(arg.len, arg.type), 255)
            /\ \A i \in 1 .. RFM12_TX_BUFFER_SIZE :
                  rf_tx_buffer'.buffer[i] =
                     IF i <= arg.len THEN arg.data[i] ELSE rf_tx_buffer.buffer[i]
       /\ (rfm12_state # STATE_TX /\ rfm12_state' = STATE_TX) => TickStep]_vars

C12_Witness ==
    /\ ret = RFM12_TX_ENQUEUED
    /\ arg.len = RFM12_TX_BUFFER_SIZE
    /\ rf_tx_buffer.buffer = arg.data
    /\ rfm12_state = STATE_RX_ACTIVE
    /\ bytecount = 2
    /\ \E i \in {0, 1} : rf_rx_buffers[i].status = STATUS_COMPLETE

\* The two steps of rfm12_rx_clear.
ClearFreeStep == pc = "main" /\ pc' = "clear_switch"
ClearSwitchStep == pc = "clear_switch" /\ pc' = "main"

\* C13: rfm12_rx_clear, whatever the state, sets the status of the slot at
\* buffer_out_num to Free and then moves buffer_out_num to the other slot;
\* neither step changes anything else of ctrl, of the transmit buffer or of
\* the receive slots, and nothing else changes buffer_out_num in between.
C13_ClearFrame ==
    [][/\ ClearFreeStep =>
            /\ rf_rx_buffers' =
                 [rf_rx_buffers EXCEPT ![buffer_out_num].status = STATUS_FREE]
            /\ UNCHANGED <<ctrlvars, rf_tx_buffer>>
       /\ ClearSwitchStep =>
            /\ buffer_out_num' = Other(buffer_out_num)
            /\ UNCHANGED <<rfm12_state, txstate, num_bytes, bytecount, buffer_in_num,
                           bufvars>>
       /\ (pc = "clear_switch" /\ pc' = pc) => buffer_out_num' = buffer_out_num]_vars

C13_Witness ==
    /\ pc = "main"
    /\ bus = <<>>
    /\ rfm12_state = STATE_RX_IDLE
    /\ rf_rx_buffers[buffer_out_num].status = STATUS_COMPLETE
    /\ rf_rx_buffers[Other(buffer_out_num)].status = STATUS_FREE
    /\ rf_rx_buffers[Other(buffer_out_num)].len = RFM12_RX_BUFFER_SIZE
    /\ rf_rx_buffers[Other(buffer_out_num)].buffer # Zeros(RFM12_RX_BUFFER_SIZE)

Released == txstate = STATUS_OCCUPIED /\ txstate' = STATUS_FREE

\* C14 as claimed: no mainline step changes rfm12_state, bytecount, num_bytes
\* or buffer_in_num or turns txstate from Occupied to Free.
C14_Original ==
    [][MainlineStep =>
          /\ UNCHANGED <<rfm12_state, bytecount, num_bytes, buffer_in_num>>
          /\ ~Released]_vars

\* C14: no mainline step changes buffer_in_num or turns txstate from Occupied
\* to Free, and the only mainline step that changes rfm12_state, bytecount or
\* num_bytes is the arming step of rfm12_tick, which sets them to STATE_TX, 0
\* and the queued length plus 6 with a packet queued.
C14_SingleWriter ==
    [][MainlineStep =>
          /\ buffer_in_num' = buffer_in_num
          /\ ~Released
          /\ <<rfm12_state, bytecount, num_bytes>>' # <<rfm12_state, bytecount, num_bytes>> =>
                /\ pc = "tick_arm"
                /\ txstate = STATUS_OCCUPIED
                /\ rfm12_state' = STATE_TX
                /\ bytecount' = 0
                /\ num_bytes' = TxTotal(rf_tx_buffer.len)]_vars

C14_Witness ==
    /\ rfm12_state = STATE_TX
    /\ bus = <<CmdTx, CmdTx, CmdPwrTransmit>>
    /\ bytecount = 0
    /\ num_bytes = RFM12_TX_BUFFER_SIZE + TxFraming
    /\ rf_rx_buffers[0].status = STATUS_COMPLETE
    /\ buffer_in_num = 1

\* --------------------------------------------------------- the interrupt mask
\* Where rfm12_tick is between an RFM12_INT_OFF and its RFM12_INT_ON.
ArmPcs == {"arm_num", "arm_count", "arm_state", "arm_pre1", "arm_pre2", "arm_et", "arm_on"}
MaskedPcs == {"sense_read", "sense_on"} \cup ArmPcs

\* C15: from the masking of the interrupt to its unmasking the arming runs
\* with the source masked and no handler execution in progress; and whenever
\* the handler executes in STATE_TX, num_bytes is the queued length plus 6 and
\* bytecount counts the bytes it has written since the two preamble bytes, 0
\* at its first event.
C15_ArmAtomic ==
    /\ pc \in ArmPcs => (~int_on /\ isr_depth = 0)
    /\ (isr_depth > 0 /\ rfm12_state = STATE_TX) =>
          /\ txstate = STATUS_OCCUPIED
          /\ num_bytes = TxTotal(rf_tx_buffer.len)
          /\ bytecount <= num_bytes
          /\ Len(wire) = 2 + bytecount

C15_Witness ==
    /\ isr_depth = 1
    /\ rfm12_state = STATE_TX
    /\ bytecount = 0
    /\ num_bytes = RFM12_TX_BUFFER_SIZE + TxFraming
    /\ wire = <<PREAMBLE, PREAMBLE>>
    /\ pc = "main"

\* C16: every bus command, of the mainline or of the handler, is issued with
\* the interrupt source masked; at most one handler execution is in progress
\* and none while rfm12_tick is inside a masked stretch; and the source is
\* enabled exactly when no handler executes and rfm12_tick is outside its
\* masked stretches, so every way out of both unmasks it.
C16_BusExclusive ==
    /\ [](isr_depth <= 1)
    /\ [](~(isr_depth > 0 /\ pc \in MaskedPcs))
    /\ [](int_on <=> (isr_depth = 0 /\ pc \notin MaskedPcs))
    /\ [][bus' # <<>> => (~int_on /\ ~int_on')]_vars

C16_Witness ==
    /\ isr_depth = 1
    /\ ~int_on
    /\ pc = "sense_test"
    /\ bus = <<CmdRead>>
    /\ rfm12_state = STATE_RX_ACTIVE

\* ------------------------------------------------------ buffer ownership
\* C17: STATE_TX implies txstate = STATUS_OCCUPIED; txstate goes from
\* Occupied to Free only in a handler step taken in STATE_TX with
\* bytecount = num_bytes, and that step is the one that returns rfm12_state
\* to STATE_RX_IDLE; while txstate is Occupied no step changes rf_tx_buffer.
C17_TxOwnership ==
    /\ [](rfm12_state = STATE_TX => txstate = STATUS_OCCUPIED)
    /\ [][Released => /\ HandlerStep
                      /\ rfm12_state = STATE_TX
                      /\ bytecount = num_bytes
                      /\ rfm12_state' = STATE_RX_IDLE]_vars
    /\ [][(rfm12_state = STATE_TX /\ rfm12_state' # STATE_TX) => Released]_vars
    /\ [][txstate = STATUS_OCCUPIED => rf_tx_buffer' = rf_tx_buffer]_vars

C17_Witness ==
    /\ txstate = STATUS_FREE
    /\ rfm12_state = STATE_RX_IDLE
    /\ bus = <<CmdPwrReceive, CmdTx>> \o FifoReset
    /\ bytecount = num_bytes
    /\ num_bytes = RFM12_TX_BUFFER_SIZE + TxFraming
    /\ enq.len = RFM12_TX_BUFFER_SIZE
    /\ rf_tx_buffer.len = enq.len
    /\ rf_tx_buffer.buffer = enq.data
    /\ Transmitted

\* C18: a handler step leaves every slot whose status is STATUS_COMPLETE as
\* it is, and so does every other step but the one of rfm12_rx_clear that
\* sets the status of the slot at buffer_out_num to STATUS_FREE and leaves
\* its len, type, checksum and payload alone.
C18_CompleteSlotKept ==
    [][\A i \in {0, 1} :
         rf_rx_buffers[i].status = STATUS_COMPLETE =>
           \/ rf_rx_buffers'[i] = rf_rx_buffers[i]
           \/ /\ ClearFreeStep
              /\ i = buffer_out_num
              /\ rf_rx_buffers'[i] = [rf_rx_buffers[i] EXCEPT !.status = STATUS_FREE]]_vars

C18_Witness ==
    /\ rf_rx_buffers[0].status = STATUS_COMPLETE
    /\ rf_rx_buffers[0].len = RFM12_RX_BUFFER_SIZE
    /\ buffer_in_num = 1
    /\ buffer_out_num = 0
    /\ pc = "clear_switch"
    /\ rfm12_state = STATE_RX_ACTIVE
    /\ rx_off = RFM12_RX_BUFFER_SIZE + 2
    /\ rf_rx_buffers[1].status = STATUS_FREE

\* C19: a handler event stores its byte at offset bytecount from the len
\* field when bytecount < RFM12_RX_BUFFER_SIZE + 3 and nowhere otherwise, in
\* the slot at buffer_in_num only; a byte that is not stored changes no
\* slot and is still counted.
C19_ReceiveBound ==
    /\ [](rx_off < RFM12_RX_BUFFER_SIZE + 3)
    /\ [][(HandlerStep /\ rfm12_state = STATE_RX_ACTIVE /\ bytecount < num_bytes) =>
            /\ rx_off' = IF bytecount < RFM12_RX_BUFFER_SIZE + 3 THEN bytecount ELSE -1
            /\ rf_rx_buffers'[Other(buffer_in_num)] = rf_rx_buffers[Other(buffer_in_num)]
            /\ rf_rx_buffers'[buffer_in_num].status = rf_rx_buffers[buffer_in_num].status
            /\ rf_rx_buffers'[buffer_in_num].len = rf_rx_buffers[buffer_in_num].len
            /\ bytecount >= RFM12_RX_BUFFER_SIZE + 3 => rf_rx_buffers' = rf_rx_buffers
            /\ ~ChecksumFails(bytecount, checksum') => bytecount' = bytecount + 1]_vars

C19_Witness ==
    /\ rfm12_state = STATE_RX_ACTIVE
    /\ rf_rx_buffers[0].len = ByteMod - 1 - PACKET_OVERHEAD
    /\ num_bytes = ByteMod - 1
    /\ bytecount = num_bytes
    /\ rx_off = -1
    /\ rf_rx_buffers[0].buffer = [i \in 1 .. RFM12_RX_BUFFER_SIZE |-> 51]
    /\ rf_rx_buffers[0].status = STATUS_FREE

\* ------------------------------------------------------ the free channel
\* The step of rfm12_tick that sets rfm12_state to STATE_TX.
ArmStep == pc = "tick_arm" /\ pc' = "main"

\* C20 as stated: channel_free_count is 0 only after CHANNEL_FREE_TIME
\* consecutive carrier-free sensing ticks, and so is every arming, the first
\* after start-up included.
C20_Original ==
    /\ [](channel_free_count = 0 => clear_run >= CHANNEL_FREE_TIME)
    /\ [][ArmStep => clear_run >= CHANNEL_FREE_TIME]_vars

\* C20: channel_free_count is 0, and rfm12_tick arms a transmission, only
\* after CHANNEL_FREE_TIME consecutive carrier-free sensing ticks once a
\* carrier has been sensed, and only after 16 of them, the start value of the
\* count, as long as none has been.
C20_FreeBeforeTx ==
    /\ [](channel_free_count = 0 =>
            clear_run >= IF carrier_seen THEN CHANNEL_FREE_TIME ELSE ChannelFreeStart)
    /\ [][ArmStep =>
            /\ rfm12_state' = STATE_TX
            /\ clear_run >= IF carrier_seen THEN CHANNEL_FREE_TIME ELSE ChannelFreeStart]_vars

C20_Witness ==
    /\ ~carrier_seen
    /\ clear_run = ChannelFreeStart + 1
    /\ channel_free_count = 0
    /\ rfm12_state = STATE_TX
    /\ bus = <<CmdTx, CmdTx, CmdPwrTransmit>>
    /\ num_bytes = RFM12_TX_BUFFER_SIZE + TxFraming

\* ------------------------------------------------------- the reset path
\* The handler event about to run ends in goto no_fifo_reset.
SuppressesReset ==
    \/ rfm12_state = STATE_RX_IDLE /\ InSlotFree
    \/ rfm12_state = STATE_RX_ACTIVE /\ bytecount < num_bytes
                                     /\ ~ChecksumFails(bytecount, checksum')
    \/ rfm12_state = STATE_TX /\ bytecount < num_bytes

\* The commands of the event just run end with the FIFO clear and re-arm.
ResetIssued ==
    /\ Len(bus') >= 2
    /\ SubSeq(bus', Len(bus') - 1, Len(bus')) = FifoReset

\* Handler events still due before rfm12_state is STATE_RX_IDLE again.
EventsDue == num_bytes - bytecount + 1

\* C21: a handler event that does not end in goto no_fifo_reset issues the
\* FIFO clear, then the FIFO re-arm, and sets rfm12_state to STATE_RX_IDLE,
\* and one that does issues neither; and while rfm12_state is not
\* STATE_RX_IDLE at least one event is due, every handler event either
\* returns to STATE_RX_IDLE or leaves one event less due, and no other step
\* changes rfm12_state or adds to the events due.
C21_ReturnToIdle ==
    /\ [][HandlerStep =>
            IF SuppressesReset
            THEN ~Issued(CmdFifoClear) /\ ~Issued(CmdFifoAccept)
            ELSE ResetIssued /\ rfm12_state' = STATE_RX_IDLE]_vars
    /\ [](rfm12_state # STATE_RX_IDLE => EventsDue >= 1)
    /\ [][rfm12_state # STATE_RX_IDLE =>
            IF HandlerStep
            THEN \/ rfm12_state' = STATE_RX_IDLE
                 \/ rfm12_state' = rfm12_state /\ EventsDue' = EventsDue - 1
            ELSE rfm12_state' = rfm12_state /\ EventsDue' <= EventsDue]_vars

\* ------------------------------------------------------ the two slots
SameStatus == rf_rx_buffers[0].status = rf_rx_buffers[1].status

\* buffer_in_num = buffer_out_num exactly when both slots have the same
\* status; otherwise the slot at buffer_out_num is Complete and the one at
\* buffer_in_num is Free.
IndexesAgree ==
    /\ (buffer_in_num = buffer_out_num) <=> SameStatus
    /\ buffer_in_num # buffer_out_num =>
          /\ rf_rx_buffers[buffer_out_num].status = STATUS_COMPLETE
          /\ rf_rx_buffers[buffer_in_num].status = STATUS_FREE

\* C22 as stated: the indexes agree with the statuses in every state, and
\* buffer_out_num is the slot completed first among the Complete ones.
C22_Original ==
    /\ IndexesAgree
    /\ rx_order # <<>> => Head(rx_order) = buffer_out_num

\* C22: with rfm12_rx_clear called only on a Complete slot, whenever no call
\* of rfm12_rx_clear is between its two writes the indexes agree with the
\* statuses and buffer_out_num is the slot completed first among the
\* Complete ones; and every call of rfm12_rx_clear frees that oldest slot.
C22_IndexInvariant ==
    /\ [](pc # "clear_switch" =>
            /\ IndexesAgree
            /\ rx_order # <<>> => Head(rx_order) = buffer_out_num)
    /\ [](\A i \in {0, 1} :
            rf_rx_buffers[i].status = STATUS_COMPLETE <=>
              \E k \in 1 .. Len(rx_order) : rx_order[k] = i)
    /\ [][ClearFreeStep => /\ Head(rx_order) = buffer_out_num
                           /\ rx_order' = Tail(rx_order)]_vars
    /\ [](pc = "clear_switch" /\ rx_order # <<>> =>
            Head(rx_order) = Other(buffer_out_num))

C22_Witness ==
    /\ pc = "main"
    /\ buffer_in_num = 1
    /\ buffer_out_num = 1
    /\ rx_order = <<1, 0>>
    /\ rf_rx_buffers[1].len = RFM12_RX_BUFFER_SIZE
    /\ rf_rx_buffers[0].len = 0
    /\ bus = <<>>

\* ------------------------------------------------------ the transmit fetch
\* The handler event about to run fetches rf_tx_buffer.sync[bytecount].
TxFetchStep == HandlerStep /\ rfm12_state = STATE_TX /\ bytecount < num_bytes

\* C23: every fetch of the handler's STATE_TX branch, for a packet queued
\* with a length up to RFM12_TX_BUFFER_SIZE, is at an index bytecount from 0
\* to the queued length plus 5 and below 5 + RFM12_TX_BUFFER_SIZE, the size
\* of rf_tx_buffer.
C23_TxReadBound ==
    [][(TxFetchStep /\ enq.len <= RFM12_TX_BUFFER_SIZE) =>
          /\ num_bytes = enq.len + TxFraming
          /\ bytecount <= enq.len + 5
          /\ bytecount < 5 + RFM12_TX_BUFFER_SIZE]_vars

====
